---- MODULE Spec2Model ----
(***************************************************************************)
(* Run orchestration of scripts/finetune.py: one process executing         *)
(* train(cfg, cli_args), with SIGINT delivered asynchronously.             *)
(*                                                                         *)
(* A multi-rank run is one such process per local_rank.  The processes     *)
(* share no variable of this layer (each has its own cfg, model, handler), *)
(* so the run is modelled as one process whose cfg.local_rank is drawn     *)
(* from Ranks; "every process" is "for every value of cfg.local_rank".     *)
(* Every call the process makes is appended to log, in program order.      *)
(***************************************************************************)
EXTENDS Integers, Sequences, FiniteSets, TLC

VARIABLES cli_args, cfg, pc, model, train_dataset, peft_config,
          possible_checkpoints, resume_from_checkpoint,
          handler, hstack, sigints, log, exc,
          cfg_at_entry, kwargs, kw_done, yaml_files, chosen_file, entries

\* State of the caller, do_train (lines 350-357), that train() does not
\* touch: the configuration as it was handed to train(), and the state of
\* load_cfg (kwargs, and how many of them its loop has handled) and of
\* choose_config (yaml_files, chosen_file, and the entries the operator
\* typed).
caller_vars ==
    <<cfg_at_entry, kwargs, kw_done, yaml_files, chosen_file, entries>>

vars == <<cli_args, cfg, pc, model, train_dataset, peft_config,
          possible_checkpoints, resume_from_checkpoint,
          handler, hstack, sigints, log, exc,
          cfg_at_entry, kwargs, kw_done, yaml_files, chosen_file, entries>>

(* ---------------------------- bounds ----------------------------------- *)

\* local_rank ranges over 0..MaxRank
MaxRank == 1
\* number of SIGINT deliveries in one run
MaxSignals == 2
\* number of key=value overrides handed to load_cfg
MaxKwargs == 2
\* number of .yml files in the directory handed to choose_config
MaxFiles == 3
\* number of entries the operator types at the prompt of choose_config
MaxPrompts == 3

Ranks == 0..MaxRank

(* ---------------------------- values ----------------------------------- *)

\* cfg.adapter: None, "lora", or another adapter kind
Adapters == {"None", "lora", "qlora"}

OutputDir == "output_dir"
MergedDir == "output_dir/merged"

\* A checkpoint path is written as the digits of its trailing step number:
\* <<2, 0>> is output_dir/checkpoint-20.  <<>> is None.
NoCheckpoint == <<>>
\* entries of output_dir that match checkpoint-*
CheckpointNames == {<<3>>, <<5>>, <<2, 0>>}
\* a path given in the configuration
ExplicitCheckpoint == <<7>>

\* One call made by the process.  by = 0: made by train() itself;
\* by = k > 0: made by the k-th invocation of terminate_handler.
\* bt: the model object handed to the call is in BetterTransformer form.
\* safe: the safe_serialization argument.
\* line: the source line of the call.
Ev(op, line, dir, by, bt, safe) ==
    [op |-> op, line |-> line, dir |-> dir, by |-> by, bt |-> bt,
     safe |-> safe]

Call(op, line) == Ev(op, line, "", 0, FALSE, FALSE)

\* line 210
safe_serialization == cfg.save_safetensors = TRUE

\* int(path.split("-")[-1]), line 243
RECURSIVE IntOf(_)
IntOf(digits) ==
    IF digits = <<>> THEN 0
    ELSE 10 * IntOf(SubSeq(digits, 1, Len(digits) - 1)) + digits[Len(digits)]

\* the order of the path strings themselves: "20" sorts before "3"
RECURSIVE LexLeq(_, _)
LexLeq(a, b) ==
    IF a = <<>> THEN TRUE
    ELSE IF b = <<>> THEN FALSE
    ELSE IF a[1] # b[1] THEN a[1] < b[1]
    ELSE LexLeq(Tail(a), Tail(b))

\* LastSorted with the key of line 243 left out: sorted(possible_checkpoints)
LastSorted_Lexicographic(paths) ==
    CHOOSE p \in paths : \A q \in paths : LexLeq(q, p)

\* sorted(possible_checkpoints, key=...)[-1], lines 241-245
LastSorted(paths) ==
    CHOOSE p \in paths : \A q \in paths : IntOf(q) <= IntOf(p)

(* ---------------------------- initial state ---------------------------- *)

CliArgsSet ==
    [debug : BOOLEAN, inference : BOOLEAN, merge_lora : BOOLEAN,
     prepare_ds_only : BOOLEAN, shard : BOOLEAN]

CfgSet ==
    [debug : BOOLEAN, adapter : Adapters, local_rank : Ranks,
     save_safetensors : BOOLEAN, flash_optimum : BOOLEAN, fsdp : BOOLEAN,
     relora_steps : BOOLEAN, load_in_4bit : BOOLEAN, load_in_8bit : BOOLEAN,
     resume_from_checkpoint : {NoCheckpoint, ExplicitCheckpoint},
     auto_resume_from_checkpoints : BOOLEAN]

\* what exc holds when load_cfg, load_tokenizer or load_model raised
LoadErrors == {"LoadCfgError", "LoadTokenizerError", "LoadModelError"}

Init ==
    /\ cli_args \in CliArgsSet
    /\ cfg \in CfgSet
    /\ pc = "load_cfg"
    /\ model = [loaded |-> FALSE, bt |-> FALSE, merged |-> FALSE,
                fp16 |-> FALSE, compiled |-> FALSE, use_cache |-> TRUE]
    /\ train_dataset = FALSE
    /\ peft_config = FALSE
    /\ possible_checkpoints = {}
    /\ resume_from_checkpoint = NoCheckpoint
    /\ handler = FALSE
    /\ hstack = <<>>
    /\ sigints = <<>>
    /\ log = <<>>
    /\ exc = "None"
    /\ cfg_at_entry = cfg
    /\ kwargs = <<>>
    /\ kw_done = 0
    /\ yaml_files = <<>>
    /\ chosen_file = "None"
    /\ entries = <<>>

(* ---------------------------- train() ---------------------------------- *)

\* train() is executing its own statements (no handler invocation is active)
Running == pc \notin {"done", "exited", "raised"} /\ hstack = <<>>

\* do_train, lines 350-357: cfg is what load_cfg (line 352) returns when it
\* returns; its validate_config (line 342) may raise instead, and train()
\* is then never called
LoadCfg ==
    /\ Running /\ pc = "load_cfg"
    /\ \E ok \in BOOLEAN :
         IF ok
         THEN pc' = "load_tokenizer" /\ exc' = exc
         ELSE pc' = "raised" /\ exc' = "LoadCfgError"
    /\ UNCHANGED <<caller_vars,
                   cli_args, cfg, model, train_dataset, peft_config,
                   possible_checkpoints, resume_from_checkpoint,
                   handler, hstack, sigints, log>>

\* LoadTokenizer that also writes the tokenizer files to the output
\* directory as soon as the tokenizer is loaded
LoadTokenizer_SavesOnLoad ==
    /\ Running /\ pc = "load_tokenizer"
    /\ \E ok \in BOOLEAN :
         IF ok
         THEN /\ log' = log \o <<Call("load_tokenizer", 186),
                                 Ev("tokenizer.save_pretrained", 186,
                                    OutputDir, 0, FALSE, FALSE)>>
              /\ pc' = "prepare_dataset"
              /\ exc' = exc
         ELSE /\ log' = log
              /\ pc' = "raised"
              /\ exc' = "LoadTokenizerError"
    /\ UNCHANGED <<caller_vars,
                   cli_args, cfg, model, train_dataset, peft_config,
                   possible_checkpoints, resume_from_checkpoint,
                   handler, hstack, sigints>>

\* line 186; the event is logged when load_tokenizer returns
LoadTokenizer ==
    /\ Running /\ pc = "load_tokenizer"
    /\ \E ok \in BOOLEAN :
         IF ok
         THEN /\ log' = Append(log, Call("load_tokenizer", 186))
              /\ pc' = "prepare_dataset"
              /\ exc' = exc
         ELSE /\ log' = log
              /\ pc' = "raised"
              /\ exc' = "LoadTokenizerError"
    /\ UNCHANGED <<caller_vars,
                   cli_args, cfg, model, train_dataset, peft_config,
                   possible_checkpoints, resume_from_checkpoint,
                   handler, hstack, sigints>>

\* PrepareDataset without the test of line 188
PrepareDataset_Always ==
    /\ Running /\ pc = "prepare_dataset"
    /\ train_dataset' = TRUE
    /\ log' = Append(log, Call("prepare_dataset", 191))
    /\ pc' = "debug"
    /\ UNCHANGED <<caller_vars,
                   cli_args, cfg, model, peft_config,
                   possible_checkpoints, resume_from_checkpoint,
                   handler, hstack, sigints, exc>>

\* lines 188-191
PrepareDataset ==
    /\ Running /\ pc = "prepare_dataset"
    /\ IF ~(cli_args.shard \/ cli_args.merge_lora \/ cli_args.inference)
       THEN /\ train_dataset' = TRUE
            /\ log' = Append(log, Call("prepare_dataset", 191))
       ELSE UNCHANGED <<train_dataset, log>>
    /\ pc' = "debug"
    /\ UNCHANGED <<caller_vars,
                   cli_args, cfg, model, peft_config,
                   possible_checkpoints, resume_from_checkpoint,
                   handler, hstack, sigints, exc>>

\* lines 193-200; train_dataset is a local that line 191 may not have bound
DebugCheck ==
    /\ Running /\ pc = "debug"
    /\ IF cli_args.debug \/ cfg.debug
       THEN IF train_dataset
            THEN /\ log' = Append(log, Call("check_dataset_labels", 195))
                 /\ pc' = "prepare_ds_only"
                 /\ exc' = exc
            ELSE /\ pc' = "raised"
                 /\ exc' = "UnboundLocalError"
                 /\ log' = log
       ELSE /\ pc' = "prepare_ds_only"
            /\ UNCHANGED <<log, exc>>
    /\ UNCHANGED <<caller_vars,
                   cli_args, cfg, model, train_dataset, peft_config,
                   possible_checkpoints, resume_from_checkpoint,
                   handler, hstack, sigints>>

\* lines 202-204
PrepareDsOnly ==
    /\ Running /\ pc = "prepare_ds_only"
    /\ IF cli_args.prepare_ds_only
       THEN /\ pc' = "done"
            /\ log' = Append(log, Call("return prepare_ds_only", 204))
       ELSE /\ pc' = "load_model"
            /\ log' = log
    /\ UNCHANGED <<caller_vars,
                   cli_args, cfg, model, train_dataset, peft_config,
                   possible_checkpoints, resume_from_checkpoint,
                   handler, hstack, sigints, exc>>

\* what load_model returns as peft_config: a config exactly when an adapter
\* is configured
LoadedPeftConfig == cfg.adapter # "None"

\* line 208; the model is put in BetterTransformer form at load time when
\* cfg.flash_optimum is set
LoadModel ==
    /\ Running /\ pc = "load_model"
    /\ \E ok \in BOOLEAN :
         IF ok
         THEN /\ model' = [model EXCEPT !.loaded = TRUE,
                                        !.bt = cfg.flash_optimum]
              /\ peft_config' = LoadedPeftConfig
              /\ log' = Append(log, Call("load_model", 208))
              /\ pc' = "merge_lora"
              /\ exc' = exc
         ELSE /\ pc' = "raised"
              /\ exc' = "LoadModelError"
              /\ UNCHANGED <<model, peft_config, log>>
    /\ UNCHANGED <<caller_vars,
                   cli_args, cfg, train_dataset,
                   possible_checkpoints, resume_from_checkpoint,
                   handler, hstack, sigints>>

\* lines 212-224
MergeLora ==
    /\ Running /\ pc = "merge_lora"
    /\ IF cli_args.merge_lora /\ cfg.adapter # "None"
       THEN /\ model' = [model EXCEPT !.merged = TRUE, !.fp16 = TRUE]
            /\ log' = log
                 \o <<Call("merge_and_unload", 214), Call("to_float16", 215)>>
                 \o (IF cfg.local_rank = 0
                     THEN <<Ev("model.save_pretrained", 219, MergedDir, 0,
                               model.bt, safe_serialization),
                            Ev("save_done", 219, MergedDir, 0, model.bt,
                               safe_serialization),
                            Ev("tokenizer.save_pretrained", 223, MergedDir, 0,
                               FALSE, FALSE)>>
                     ELSE <<>>)
            /\ pc' = "done"
       ELSE /\ pc' = "inference"
            /\ UNCHANGED <<model, log>>
    /\ UNCHANGED <<caller_vars,
                   cli_args, cfg, train_dataset, peft_config,
                   possible_checkpoints, resume_from_checkpoint,
                   handler, hstack, sigints, exc>>

\* lines 226-229; do_inference returns when the operator enters nothing
Inference ==
    /\ Running /\ pc = "inference"
    /\ IF cli_args.inference
       THEN /\ log' = Append(log, Call("do_inference", 228))
            /\ pc' = "done"
       ELSE /\ pc' = "shard"
            /\ log' = log
    /\ UNCHANGED <<caller_vars,
                   cli_args, cfg, model, train_dataset, peft_config,
                   possible_checkpoints, resume_from_checkpoint,
                   handler, hstack, sigints, exc>>

\* lines 231-234
Shard ==
    /\ Running /\ pc = "shard"
    /\ IF cli_args.shard
       THEN /\ log' = log \o
                 <<Ev("model.save_pretrained", 233, OutputDir, 0, model.bt,
                      safe_serialization),
                   Ev("save_done", 233, OutputDir, 0, model.bt,
                      safe_serialization)>>
            /\ pc' = "done"
       ELSE /\ pc' = "resume"
            /\ log' = log
    /\ UNCHANGED <<caller_vars,
                   cli_args, cfg, model, train_dataset, peft_config,
                   possible_checkpoints, resume_from_checkpoint,
                   handler, hstack, sigints, exc>>

\* ResumeFromCheckpoint with the test of line 236 reduced to
\* cfg.auto_resume_from_checkpoints
ResumeFromCheckpoint_AlwaysScans ==
    /\ Running /\ pc = "resume"
    /\ IF cfg.auto_resume_from_checkpoints
       THEN \E listing \in SUBSET CheckpointNames :
              /\ possible_checkpoints' = listing
              /\ log' = Append(log, Call("glob", 238))
              /\ cfg' = IF Cardinality(listing) > 0
                        THEN [cfg EXCEPT !.resume_from_checkpoint =
                                             LastSorted(listing)]
                        ELSE cfg
       ELSE UNCHANGED <<cfg, possible_checkpoints, log>>
    /\ resume_from_checkpoint' = cfg'.resume_from_checkpoint
    /\ pc' = "setup_trainer"
    /\ UNCHANGED <<caller_vars,
                   cli_args, model, train_dataset, peft_config,
                   handler, hstack, sigints, exc>>

\* ResumeFromCheckpoint that also switches auto-resume off once it has
\* resolved a checkpoint
ResumeFromCheckpoint_ClearsAutoResume ==
    /\ Running /\ pc = "resume"
    /\ IF cfg.resume_from_checkpoint = NoCheckpoint
          /\ cfg.auto_resume_from_checkpoints
       THEN \E listing \in SUBSET CheckpointNames :
              /\ possible_checkpoints' = listing
              /\ log' = Append(log, Call("glob", 238))
              /\ cfg' = IF Cardinality(listing) > 0
                        THEN [cfg EXCEPT !.resume_from_checkpoint =
                                             LastSorted(listing),
                                         !.auto_resume_from_checkpoints =
                                             FALSE]
                        ELSE cfg
       ELSE UNCHANGED <<cfg, possible_checkpoints, log>>
    /\ resume_from_checkpoint' = cfg'.resume_from_checkpoint
    /\ pc' = "setup_trainer"
    /\ UNCHANGED <<caller_vars,
                   cli_args, model, train_dataset, peft_config,
                   handler, hstack, sigints, exc>>

\* lines 236-249; the directory listing (the glob of line 238) is whatever
\* output_dir holds
ResumeFromCheckpoint ==
    /\ Running /\ pc = "resume"
    /\ IF cfg.resume_from_checkpoint = NoCheckpoint
          /\ cfg.auto_resume_from_checkpoints
       THEN \E listing \in SUBSET CheckpointNames :
              /\ possible_checkpoints' = listing
              /\ log' = Append(log, Call("glob", 238))
              /\ cfg' = IF Cardinality(listing) > 0
                        THEN [cfg EXCEPT !.resume_from_checkpoint =
                                             LastSorted(listing)]
                        ELSE cfg
       ELSE UNCHANGED <<cfg, possible_checkpoints, log>>
    /\ resume_from_checkpoint' = cfg'.resume_from_checkpoint
    /\ pc' = "setup_trainer"
    /\ UNCHANGED <<caller_vars,
                   cli_args, model, train_dataset, peft_config,
                   handler, hstack, sigints, exc>>

\* lines 251-253; train_dataset and eval_dataset are locals that line 191
\* may not have bound
SetupTrainer ==
    /\ Running /\ pc = "setup_trainer"
    /\ IF train_dataset
       THEN /\ log' = Append(log, Call("setup_trainer", 251))
            /\ pc' = "compile"
            /\ exc' = exc
       ELSE /\ pc' = "raised"
            /\ exc' = "UnboundLocalError"
            /\ log' = log
    /\ UNCHANGED <<caller_vars,
                   cli_args, cfg, model, train_dataset, peft_config,
                   possible_checkpoints, resume_from_checkpoint,
                   handler, hstack, sigints>>

\* line 257: torch 2 on a platform other than win32
CompileAvailable == TRUE

\* lines 255-259
Compile ==
    /\ Running /\ pc = "compile"
    /\ model' = [model EXCEPT !.use_cache = FALSE,
                              !.compiled = CompileAvailable]
    /\ log' = IF CompileAvailable THEN Append(log, Call("torch.compile", 259))
              ELSE log
    /\ pc' = "presave"
    /\ UNCHANGED <<caller_vars,
                   cli_args, cfg, train_dataset, peft_config,
                   possible_checkpoints, resume_from_checkpoint,
                   handler, hstack, sigints, exc>>

\* lines 261-264
PreSaveAdapter ==
    /\ Running /\ pc = "presave"
    /\ log' = IF peft_config
              THEN Append(log, Ev("peft_config.save_pretrained", 264,
                                  OutputDir, 0, FALSE, FALSE))
              ELSE log
    /\ pc' = "install"
    /\ UNCHANGED <<caller_vars,
                   cli_args, cfg, model, train_dataset, peft_config,
                   possible_checkpoints, resume_from_checkpoint,
                   handler, hstack, sigints, exc>>

\* InstallHandler without the test of line 267
InstallHandler_AnyRank ==
    /\ Running /\ pc = "install"
    /\ handler' = TRUE
    /\ log' = Append(log, Call("signal.signal", 275))
    /\ pc' = "save_tokenizer"
    /\ UNCHANGED <<caller_vars,
                   cli_args, cfg, model, train_dataset, peft_config,
                   possible_checkpoints, resume_from_checkpoint,
                   hstack, sigints, exc>>

\* lines 266-277: signal.signal(SIGINT, ...) on local_rank 0 only
InstallHandler ==
    /\ Running /\ pc = "install"
    /\ IF cfg.local_rank = 0
       THEN /\ handler' = TRUE
            /\ log' = Append(log, Call("signal.signal", 275))
       ELSE UNCHANGED <<handler, log>>
    /\ pc' = "save_tokenizer"
    /\ UNCHANGED <<caller_vars,
                   cli_args, cfg, model, train_dataset, peft_config,
                   possible_checkpoints, resume_from_checkpoint,
                   hstack, sigints, exc>>

\* lines 283-285
SaveTokenizer ==
    /\ Running /\ pc = "save_tokenizer"
    /\ log' = Append(log, Ev("tokenizer.save_pretrained", 285, OutputDir,
                             0, FALSE, FALSE))
    /\ pc' = "train"
    /\ UNCHANGED <<caller_vars,
                   cli_args, cfg, model, train_dataset, peft_config,
                   possible_checkpoints, resume_from_checkpoint,
                   handler, hstack, sigints, exc>>

\* lines 286-292: the call of trainer.train, which blocks
TrainerTrain ==
    /\ Running /\ pc = "train"
    /\ log' = Append(log, Call("trainer.train", 292))
    /\ pc' = "training"
    /\ UNCHANGED <<caller_vars,
                   cli_args, cfg, model, train_dataset, peft_config,
                   possible_checkpoints, resume_from_checkpoint,
                   handler, hstack, sigints, exc>>

\* trainer.train returns; line 294
TrainReturn ==
    /\ Running /\ pc = "training"
    /\ log' = Append(log, Call("train_returned", 294))
    /\ pc' = "relora"
    /\ UNCHANGED <<caller_vars,
                   cli_args, cfg, model, train_dataset, peft_config,
                   possible_checkpoints, resume_from_checkpoint,
                   handler, hstack, sigints, exc>>

\* ReloraCheck with the quantization test of line 297 left out
ReloraCheck_IgnoresQuantization ==
    /\ Running /\ pc = "relora"
    /\ IF cfg.relora_steps
       THEN IF cfg.adapter = "lora"
            THEN /\ model' = [model EXCEPT !.merged = TRUE]
                 /\ log' = Append(log, Call("merge_and_unload", 298))
                 /\ pc' = "final_save"
            ELSE /\ pc' = "done"
                 /\ UNCHANGED <<model, log>>
       ELSE /\ pc' = "final_save"
            /\ UNCHANGED <<model, log>>
    /\ UNCHANGED <<caller_vars,
                   cli_args, cfg, train_dataset, peft_config,
                   possible_checkpoints, resume_from_checkpoint,
                   handler, hstack, sigints, exc>>

\* lines 296-301
ReloraCheck ==
    /\ Running /\ pc = "relora"
    /\ IF cfg.relora_steps
       THEN IF cfg.adapter = "lora"
               /\ ~(cfg.load_in_4bit \/ cfg.load_in_8bit)
            THEN /\ model' = [model EXCEPT !.merged = TRUE]
                 /\ log' = Append(log, Call("merge_and_unload", 298))
                 /\ pc' = "final_save"
            ELSE /\ pc' = "done"
                 /\ UNCHANGED <<model, log>>
       ELSE /\ pc' = "final_save"
            /\ UNCHANGED <<model, log>>
    /\ UNCHANGED <<caller_vars,
                   cli_args, cfg, train_dataset, peft_config,
                   possible_checkpoints, resume_from_checkpoint,
                   handler, hstack, sigints, exc>>

\* FinalSave with the local_rank test of line 307 left out
FinalSave_NoRankCheck ==
    /\ Running /\ pc = "final_save"
    /\ IF cfg.fsdp
       THEN /\ log' = Append(log, Ev("trainer.save_model", 306, OutputDir,
                                     0, model.bt, FALSE))
            /\ model' = model
       ELSE /\ model' = IF cfg.flash_optimum
                        THEN [model EXCEPT !.bt = FALSE]
                        ELSE model
            /\ log' = log
                 \o (IF cfg.flash_optimum
                     THEN <<Call("BetterTransformer.reverse", 309)>>
                     ELSE <<>>)
                 \o <<Ev("model.save_pretrained", 311, OutputDir, 0,
                         model'.bt, safe_serialization)>>
    /\ pc' = "saving"
    /\ UNCHANGED <<caller_vars,
                   cli_args, cfg, train_dataset, peft_config,
                   possible_checkpoints, resume_from_checkpoint,
                   handler, hstack, sigints, exc>>

\* lines 305-311, up to the call of the save primitive
FinalSave ==
    /\ Running /\ pc = "final_save"
    /\ IF cfg.fsdp
       THEN /\ log' = Append(log, Ev("trainer.save_model", 306, OutputDir,
                                     0, model.bt, FALSE))
            /\ pc' = "saving"
            /\ model' = model
       ELSE IF cfg.local_rank = 0
            THEN /\ model' = IF cfg.flash_optimum
                             THEN [model EXCEPT !.bt = FALSE]
                             ELSE model
                 /\ log' = log
                      \o (IF cfg.flash_optimum
                          THEN <<Call("BetterTransformer.reverse", 309)>>
                          ELSE <<>>)
                      \o <<Ev("model.save_pretrained", 311, OutputDir, 0,
                              model'.bt, safe_serialization)>>
                 /\ pc' = "saving"
            ELSE /\ pc' = "done"
                 /\ UNCHANGED <<model, log>>
    /\ UNCHANGED <<caller_vars,
                   cli_args, cfg, train_dataset, peft_config,
                   possible_checkpoints, resume_from_checkpoint,
                   handler, hstack, sigints, exc>>

\* the save primitive called at line 306 or 311 returns, and train() with it
FinalSaveDone ==
    /\ Running /\ pc = "saving"
    /\ log' = Append(log, Ev("save_done", IF cfg.fsdp THEN 306 ELSE 311,
                             OutputDir, 0, model.bt,
                             ~cfg.fsdp /\ safe_serialization))
    /\ pc' = "done"
    /\ UNCHANGED <<caller_vars,
                   cli_args, cfg, model, train_dataset, peft_config,
                   possible_checkpoints, resume_from_checkpoint,
                   handler, hstack, sigints, exc>>

(* ---------------------------- SIGINT ----------------------------------- *)

\* SIGINT deliveries are modelled from the call of trainer.train until
\* train() returns.
Interruptible == pc \in {"training", "relora", "final_save", "saving"}

Top == hstack[Len(hstack)]

SetTop(f) == [hstack EXCEPT ![Len(hstack)] = f]

\* SIGINT is delivered.  With the handler of line 275 installed, Python calls
\* it on the main thread, on top of whatever runs there (train() or an
\* earlier invocation of the handler); the lambda reads train()'s model
\* variable at that moment.  Without it, the default handler raises
\* KeyboardInterrupt.
Signal ==
    /\ Interruptible
    /\ Len(sigints) < MaxSignals
    /\ sigints' = Append(sigints, pc)
    /\ IF handler
       THEN /\ hstack' = Append(hstack, [pc |-> "start",
                                         id |-> Len(sigints) + 1,
                                         bt |-> model.bt])
            /\ UNCHANGED <<pc, exc>>
       ELSE /\ pc' = "raised"
            /\ exc' = "KeyboardInterrupt"
            /\ hstack' = hstack
    /\ UNCHANGED <<caller_vars,
                   cli_args, cfg, model, train_dataset, peft_config,
                   possible_checkpoints, resume_from_checkpoint,
                   handler, log>>

\* terminate_handler, lines 270-272 up to the call of save_pretrained.
\* BetterTransformer.reverse of a model that line 309 has already reversed
\* either raises or returns it unchanged, depending on the library.
HandlerBegin ==
    /\ hstack # <<>> /\ Top.pc = "start"
    /\ IF cfg.flash_optimum /\ ~Top.bt
       THEN \E raises \in BOOLEAN :
              IF raises
              THEN /\ pc' = "raised"
                   /\ exc' = "ValueError"
                   /\ hstack' = <<>>
                   /\ log' = Append(log, Ev("BetterTransformer.reverse",
                                            271, "", Top.id, FALSE, FALSE))
              ELSE /\ hstack' = SetTop([Top EXCEPT !.pc = "saving"])
                   /\ log' = log \o
                        <<Ev("BetterTransformer.reverse", 271, "", Top.id,
                             FALSE, FALSE),
                          Ev("model.save_pretrained", 272, OutputDir, Top.id,
                             FALSE, safe_serialization)>>
                   /\ UNCHANGED <<pc, exc>>
       ELSE /\ hstack' = SetTop([Top EXCEPT !.pc = "saving", !.bt = FALSE])
            /\ log' = log
                 \o (IF cfg.flash_optimum
                     THEN <<Ev("BetterTransformer.reverse", 271, "", Top.id,
                               FALSE, FALSE)>>
                     ELSE <<>>)
                 \o <<Ev("model.save_pretrained", 272, OutputDir, Top.id,
                         FALSE, safe_serialization)>>
            /\ UNCHANGED <<pc, exc>>
    /\ UNCHANGED <<caller_vars,
                   cli_args, cfg, model, train_dataset, peft_config,
                   possible_checkpoints, resume_from_checkpoint,
                   handler, sigints>>

\* terminate_handler, line 272: save_pretrained returns
HandlerSaveDone ==
    /\ hstack # <<>> /\ Top.pc = "saving"
    /\ hstack' = SetTop([Top EXCEPT !.pc = "saved"])
    /\ log' = Append(log, Ev("save_done", 272, OutputDir, Top.id, FALSE,
                             safe_serialization))
    /\ UNCHANGED <<caller_vars,
                   cli_args, cfg, pc, model, train_dataset, peft_config,
                   possible_checkpoints, resume_from_checkpoint,
                   handler, sigints, exc>>

\* HandlerExit reached without waiting for save_pretrained to return
HandlerExit_BeforeSave ==
    /\ hstack # <<>> /\ Top.pc \in {"saving", "saved"}
    /\ hstack' = <<>>
    /\ pc' = "exited"
    /\ exc' = "SystemExit(0)"
    /\ log' = Append(log, Ev("sys.exit", 273, "", Top.id, FALSE, FALSE))
    /\ UNCHANGED <<caller_vars,
                   cli_args, cfg, model, train_dataset, peft_config,
                   possible_checkpoints, resume_from_checkpoint,
                   handler, sigints>>

\* terminate_handler, line 273: SystemExit unwinds every frame
HandlerExit ==
    /\ hstack # <<>> /\ Top.pc = "saved"
    /\ hstack' = <<>>
    /\ pc' = "exited"
    /\ exc' = "SystemExit(0)"
    /\ log' = Append(log, Ev("sys.exit", 273, "", Top.id, FALSE, FALSE))
    /\ UNCHANGED <<caller_vars,
                   cli_args, cfg, model, train_dataset, peft_config,
                   possible_checkpoints, resume_from_checkpoint,
                   handler, sigints>>

terminate_handler == HandlerBegin \/ HandlerSaveDone \/ HandlerExit

train ==
    \/ LoadCfg
    \/ LoadTokenizer
    \/ PrepareDataset
    \/ DebugCheck
    \/ PrepareDsOnly
    \/ LoadModel
    \/ MergeLora
    \/ Inference
    \/ Shard
    \/ ResumeFromCheckpoint
    \/ SetupTrainer
    \/ Compile
    \/ PreSaveAdapter
    \/ InstallHandler
    \/ SaveTokenizer
    \/ TrainerTrain
    \/ TrainReturn
    \/ ReloraCheck
    \/ FinalSave
    \/ FinalSaveDone

Next == train \/ Signal \/ terminate_handler

Spec == Init /\ [][Next]_vars

(* ---------------------------- load_cfg --------------------------------- *)

\* A Python value held by the YAML mapping or passed as an override: a bool,
\* a str, an int or None.
PyBool(x) == [t |-> "bool", b |-> x, s |-> "", n |-> 0]
PyStr(x) == [t |-> "str", b |-> FALSE, s |-> x, n |-> 0]
PyInt(x) == [t |-> "int", b |-> FALSE, s |-> "", n |-> x]
PyNone == [t |-> "NoneType", b |-> FALSE, s |-> "", n |-> 0]

\* bool(x), lines 325 (not cfg.strict) and 329
Truthy(x) ==
    CASE x.t = "bool" -> x.b
      [] x.t = "str" -> x.s # ""
      [] x.t = "int" -> x.n # 0
      [] x.t = "NoneType" -> FALSE

\* cfg[k] and cfg.k on a DictDefault: a key the mapping does not hold reads
\* as None
Get(c, k) == IF k \in DOMAIN c THEN c[k] ELSE PyNone

\* cfg[k] = v
Put(c, k, v) == [x \in DOMAIN c \cup {k} |-> IF x = k THEN v ELSE c[x]]

\* keys the YAML file may hold, and the values it may give them
CfgKeys == {"strict", "debug", "adapter"}
YamlValues == {PyBool(TRUE), PyBool(FALSE), PyNone, PyStr("lora")}

\* keys and values of the overrides; "seed" is in no YAML file here
KwKeys == CfgKeys \cup {"seed"}
KwValues == {PyBool(TRUE), PyBool(FALSE), PyStr("false"), PyStr(""),
             PyInt(0)}

\* kwargs is a dict: an ordered sequence of items with distinct keys
KwargsSet ==
    {kw \in UNION {[1..n -> [k : KwKeys, v : KwValues]] : n \in 0..MaxKwargs} :
        \A i, j \in DOMAIN kw : kw[i].k = kw[j].k => i = j}

\* train() has not been entered
TrainNotEntered ==
    /\ cli_args = [debug |-> FALSE, inference |-> FALSE, merge_lora |-> FALSE,
                   prepare_ds_only |-> FALSE, shard |-> FALSE]
    /\ model = [loaded |-> FALSE, bt |-> FALSE, merged |-> FALSE,
                fp16 |-> FALSE, compiled |-> FALSE, use_cache |-> TRUE]
    /\ train_dataset = FALSE
    /\ peft_config = FALSE
    /\ possible_checkpoints = {}
    /\ resume_from_checkpoint = NoCheckpoint
    /\ handler = FALSE
    /\ hstack = <<>>
    /\ sigints = <<>>

\* load_cfg after line 320: cfg is the mapping read from the YAML file
InitLoadCfg ==
    /\ TrainNotEntered
    /\ cfg \in UNION {[K -> YamlValues] : K \in SUBSET CfgKeys}
    /\ cfg_at_entry = cfg
    /\ kwargs \in KwargsSet
    /\ kw_done = 0
    /\ pc = "overrides"
    /\ log = <<>>
    /\ exc = "None"
    /\ yaml_files = <<>>
    /\ chosen_file = "None"
    /\ entries = <<>>

\* OverrideStep with the test of line 325 taking an absent or null strict
\* for strict
OverrideStep_StrictUnlessFalse ==
    /\ pc = "overrides" /\ kw_done < Len(kwargs)
    /\ LET k == kwargs[kw_done + 1].k
           v == kwargs[kw_done + 1].v
       IN  IF k \in DOMAIN cfg \/ Get(cfg, "strict") = PyBool(FALSE)
           THEN IF Get(cfg, k).t = "bool"
                THEN /\ cfg' = Put(cfg, k, PyBool(Truthy(v)))
                     /\ log' = Append(log, Call(k, 329))
                ELSE /\ cfg' = Put(cfg, k, v)
                     /\ log' = Append(log, Call(k, 331))
           ELSE UNCHANGED <<cfg, log>>
    /\ kw_done' = kw_done + 1
    /\ UNCHANGED <<cli_args, pc, model, train_dataset, peft_config,
                   possible_checkpoints, resume_from_checkpoint,
                   handler, hstack, sigints, exc,
                   cfg_at_entry, kwargs, yaml_files, chosen_file, entries>>

\* one iteration of the loop of lines 323-331; an assignment to cfg[k] is
\* logged under the name of the key
OverrideStep ==
    /\ pc = "overrides" /\ kw_done < Len(kwargs)
    /\ LET k == kwargs[kw_done + 1].k
           v == kwargs[kw_done + 1].v
       IN  IF k \in DOMAIN cfg \/ ~Truthy(Get(cfg, "strict"))
           THEN IF Get(cfg, k).t = "bool"
                THEN /\ cfg' = Put(cfg, k, PyBool(Truthy(v)))
                     /\ log' = Append(log, Call(k, 329))
                ELSE /\ cfg' = Put(cfg, k, v)
                     /\ log' = Append(log, Call(k, 331))
           ELSE UNCHANGED <<cfg, log>>
    /\ kw_done' = kw_done + 1
    /\ UNCHANGED <<cli_args, pc, model, train_dataset, peft_config,
                   possible_checkpoints, resume_from_checkpoint,
                   handler, hstack, sigints, exc,
                   cfg_at_entry, kwargs, yaml_files, chosen_file, entries>>

\* the loop of lines 323-331 ends and load_cfg goes on to line 333
OverridesEnd ==
    /\ pc = "overrides" /\ kw_done = Len(kwargs)
    /\ pc' = "load_model_config"
    /\ UNCHANGED <<caller_vars,
                   cli_args, cfg, model, train_dataset, peft_config,
                   possible_checkpoints, resume_from_checkpoint,
                   handler, hstack, sigints, log, exc>>

NextLoadCfg == OverrideStep \/ OverridesEnd

SpecLoadCfg == InitLoadCfg /\ [][NextLoadCfg]_vars

(* ---------------------------- choose_config ---------------------------- *)

\* names of .yml files, in the order path.glob yields them
YamlNames == <<"a.yml", "b.yml", "c.yml", "d.yml", "e.yml">>

\* what the operator may type at the prompt, as sequences of characters
Typed ==
    {<<>>, <<"a">>, <<"0">>, <<"1">>, <<"2">>, <<"3">>, <<"4">>, <<"5">>,
     <<"-", "1">>, <<"1", "0">>, <<"1", ".", "5">>, <<" ", "2">>,
     <<"2", "b">>}

DigitValue(c) ==
    CASE c = "0" -> 0 [] c = "1" -> 1 [] c = "2" -> 2 [] c = "3" -> 3
      [] c = "4" -> 4 [] c = "5" -> 5 [] c = "6" -> 6 [] c = "7" -> 7
      [] c = "8" -> 8 [] c = "9" -> 9

IsDigit(c) == c \in {"0", "1", "2", "3", "4", "5", "6", "7", "8", "9"}

\* str.strip(), which int() applies to its argument
RECURSIVE StripLeft(_)
StripLeft(t) ==
    IF t # <<>> /\ t[1] = " " THEN StripLeft(Tail(t)) ELSE t

RECURSIVE StripRight(_)
StripRight(t) ==
    IF t # <<>> /\ t[Len(t)] = " "
    THEN StripRight(SubSeq(t, 1, Len(t) - 1))
    ELSE t

Strip(t) == StripRight(StripLeft(t))

\* the digits after an optional sign
Unsigned(t) ==
    IF t # <<>> /\ t[1] \in {"-", "+"} THEN Tail(t) ELSE t

\* int(t) returns (it raises ValueError otherwise)
IsInt(t) ==
    LET u == Unsigned(Strip(t))
    IN  u # <<>> /\ \A i \in DOMAIN u : IsDigit(u[i])

RECURSIVE DecimalValue(_)
DecimalValue(u) ==
    IF u = <<>> THEN 0
    ELSE 10 * DecimalValue(SubSeq(u, 1, Len(u) - 1)) + DigitValue(u[Len(u)])

\* int(t), for t with IsInt(t)
IntValue(t) ==
    LET st == Strip(t)
        mag == DecimalValue(Unsigned(st))
    IN  IF st[1] = "-" THEN 0 - mag ELSE mag

\* choose_config is called on a directory holding 0..MaxFiles .yml files
InitChooseConfig ==
    /\ TrainNotEntered
    /\ cfg = <<>>
    /\ cfg_at_entry = cfg
    /\ kwargs = <<>>
    /\ kw_done = 0
    /\ pc = "choose_config"
    /\ log = <<>>
    /\ exc = "None"
    /\ yaml_files \in {SubSeq(YamlNames, 1, n) : n \in 0..MaxFiles}
    /\ chosen_file = "None"
    /\ entries = <<>>

\* lines 146-161
ListYamlFiles ==
    /\ pc = "choose_config"
    /\ IF Len(yaml_files) = 0
       THEN /\ pc' = "raised"
            /\ exc' = "ValueError"
            /\ UNCHANGED <<log, chosen_file>>
       ELSE IF Len(yaml_files) = 1
       THEN /\ pc' = "returned"
            /\ chosen_file' = yaml_files[1]
            /\ log' = Append(log, Call("print default", 154))
            /\ exc' = exc
       ELSE /\ pc' = "prompt"
            /\ log' = Append(log, Call("print list", 157))
            /\ UNCHANGED <<exc, chosen_file>>
    /\ UNCHANGED <<cli_args, cfg, model, train_dataset, peft_config,
                   possible_checkpoints, resume_from_checkpoint,
                   handler, hstack, sigints,
                   cfg_at_entry, kwargs, kw_done, yaml_files, entries>>

\* Prompt taking the number typed for a list index (0-based)
Prompt_ZeroBased ==
    /\ pc = "prompt" /\ Len(entries) < MaxPrompts
    /\ \E t \in Typed :
         /\ entries' = Append(entries, t)
         /\ IF IsInt(t)
            THEN IF 0 <= IntValue(t) /\ IntValue(t) < Len(yaml_files)
                 THEN /\ chosen_file' = yaml_files[IntValue(t) + 1]
                      /\ log' = Append(log, Call("input", 164))
                 ELSE /\ chosen_file' = chosen_file
                      /\ log' = log \o <<Call("input", 164),
                                         Call("print invalid choice", 168)>>
            ELSE /\ chosen_file' = chosen_file
                 /\ log' = log \o <<Call("input", 164),
                                    Call("print invalid input", 170)>>
    /\ pc' = IF chosen_file' = "None" THEN "prompt" ELSE "returned"
    /\ UNCHANGED <<cli_args, cfg, model, train_dataset, peft_config,
                   possible_checkpoints, resume_from_checkpoint,
                   handler, hstack, sigints, exc,
                   cfg_at_entry, kwargs, kw_done, yaml_files>>

\* one iteration of the loop of lines 162-170, and line 172 when it ends
Prompt ==
    /\ pc = "prompt" /\ Len(entries) < MaxPrompts
    /\ \E t \in Typed :
         /\ entries' = Append(entries, t)
         /\ IF IsInt(t)
            THEN IF 1 <= IntValue(t) /\ IntValue(t) <= Len(yaml_files)
                 THEN /\ chosen_file' = yaml_files[IntValue(t)]
                      /\ log' = Append(log, Call("input", 164))
                 ELSE /\ chosen_file' = chosen_file
                      /\ log' = log \o <<Call("input", 164),
                                         Call("print invalid choice", 168)>>
            ELSE /\ chosen_file' = chosen_file
                 /\ log' = log \o <<Call("input", 164),
                                    Call("print invalid input", 170)>>
    /\ pc' = IF chosen_file' = "None" THEN "prompt" ELSE "returned"
    /\ UNCHANGED <<cli_args, cfg, model, train_dataset, peft_config,
                   possible_checkpoints, resume_from_checkpoint,
                   handler, hstack, sigints, exc,
                   cfg_at_entry, kwargs, kw_done, yaml_files>>

NextChooseConfig == ListYamlFiles \/ Prompt

SpecChooseConfig == InitChooseConfig /\ [][NextChooseConfig]_vars

(* ---------------------------- reading the log ------------------------- *)

Terminated == pc \in {"done", "exited", "raised"}

Has(op) == \E i \in DOMAIN log : log[i].op = op

HasLine(line) == \E i \in DOMAIN log : log[i].line = line

DebugSet == cli_args.debug \/ cfg.debug

\* load_cfg, load_tokenizer or load_model raised
LoadFailed == exc \in LoadErrors

\* the calls that write model weights
SavePrimitives == {"model.save_pretrained", "trainer.save_model"}

\* the calls that write into the output directory tree
WriteOps == SavePrimitives
            \cup {"tokenizer.save_pretrained", "peft_config.save_pretrained"}

\* the calls that change the model object
MutateOps == {"merge_and_unload", "to_float16", "torch.compile",
              "BetterTransformer.reverse"}

Modes == {"prepare_only", "merge", "inference", "reshard", "train"}

\* the mode the priority order selects
ExpectedMode ==
    IF cli_args.prepare_ds_only THEN "prepare_only"
    ELSE IF cli_args.merge_lora /\ cfg.adapter # "None" THEN "merge"
    ELSE IF cli_args.inference THEN "inference"
    ELSE IF cli_args.shard THEN "reshard"
    ELSE "train"

\* a mode has executed when the call that only it makes is in the log
Executed(m) ==
    CASE m = "prepare_only" -> HasLine(204)
      [] m = "merge"        -> HasLine(214)
      [] m = "inference"    -> HasLine(228)
      [] m = "reshard"      -> HasLine(233)
      [] m = "train"        -> HasLine(292)

ModesExecuted == {m \in Modes : Executed(m)}

\* the calls made by the k-th invocation of terminate_handler
EventsBy(k) == SelectSeq(log, LAMBDA e : e.by = k)

\* the calls train() makes after trainer.train has returned
AfterTrain ==
    IF Has("train_returned")
    THEN LET i == CHOOSE j \in DOMAIN log : log[j].op = "train_returned"
         IN  SelectSeq(SubSeq(log, i + 1, Len(log)), LAMBDA e : e.by = 0)
    ELSE <<>>

OpsOf(seq) == [i \in DOMAIN seq |-> seq[i].op]

IsPrefix(s, t) == Len(s) <= Len(t) /\ SubSeq(t, 1, Len(s)) = s

NumEvents(P(_)) == Cardinality({i \in DOMAIN log : P(log[i])})

HandlerSaveCalls ==
    NumEvents(LAMBDA e : e.op = "model.save_pretrained" /\ e.by > 0)

HandlerSavesDone == NumEvents(LAMBDA e : e.op = "save_done" /\ e.by > 0)

\* train() itself called the final save primitive (line 306 or 311)
MainSaved == \E i \in DOMAIN log :
                 log[i].op \in SavePrimitives /\ log[i].line \in {306, 311}

\* an invocation of the handler called save_pretrained (line 272)
HandlerSaved == HandlerSaveCalls > 0

ReloraMerges ==
    cfg.adapter = "lora" /\ ~cfg.load_in_4bit /\ ~cfg.load_in_8bit

(* ---------------------------- claims ----------------------------------- *)

\* C1 (as claimed): when train() has ended, exactly one mode has executed,
\* and it is the one the priority order prepare_ds_only, merge_lora with an
\* adapter, inference, shard, else train selects.  Stated for runs with
\* debug unset in which the loads succeed.
C1_ExactlyOneModeByPriority ==
    (Terminated /\ ~DebugSet /\ ~LoadFailed) => ModesExecuted = {ExpectedMode}

\* C2 (as claimed): when every SIGINT of the run was delivered during
\* trainer.train, local_rank 0 ends with exactly one model save made by the
\* handler, followed by exit, and any other rank makes no model save.
C2_OneSaveAndExitOnInterrupt ==
    (/\ Terminated
     /\ sigints # <<>>
     /\ \A i \in DOMAIN sigints : sigints[i] = "training")
    => IF cfg.local_rank = 0
       THEN /\ pc = "exited"
            /\ HandlerSavesDone = 1
            /\ ~MainSaved
       ELSE ~\E i \in DOMAIN log : log[i].op \in SavePrimitives

\* C3 (as claimed): in train mode on the process that saves, the interrupt
\* path and the normal-completion path never both perform the final save,
\* and when the run has ended one of them has.
C3_InterruptAndNormalExclusive ==
    /\ ~(MainSaved /\ HandlerSaved)
    /\ (/\ Terminated
        /\ HasLine(294)
        /\ cfg.local_rank = 0
        /\ ~(cfg.relora_steps /\ ~ReloraMerges))
       => (MainSaved \/ HandlerSaved)

\* C4 (as claimed): with prepare_ds_only set, train() prepares the dataset
\* and returns without loading, mutating or saving a model.  Stated for runs
\* with debug unset in which the loads succeed.
C4_PrepareOnlyPreparesAndReturns ==
    (Terminated /\ cli_args.prepare_ds_only /\ ~DebugSet /\ ~LoadFailed)
    => /\ pc = "done"
       /\ Has("prepare_dataset")
       /\ ~Has("load_model")
       /\ \A i \in DOMAIN log : log[i].op \notin MutateOps \cup WriteOps

\* C5 (as claimed): with merge_lora set and no adapter, the merge branch
\* (lines 214-223) never runs and the run completes inference, reshard or
\* training.  Stated for runs with prepare_ds_only and debug unset, no SIGINT,
\* and the loads succeeding.
C5_MergeWithoutAdapterFallsThrough ==
    (/\ Terminated
     /\ cli_args.merge_lora /\ cfg.adapter = "None"
     /\ ~cli_args.prepare_ds_only /\ ~DebugSet /\ ~LoadFailed
     /\ sigints = <<>>)
    => /\ \A i \in DOMAIN log : log[i].line \notin 214..223
       /\ pc = "done"
       /\ \E m \in {"inference", "reshard", "train"} : ModesExecuted = {m}

\* what one invocation of terminate_handler does, in order
HandlerScript(k) ==
    (IF cfg.flash_optimum
     THEN <<Ev("BetterTransformer.reverse", 271, "", k, FALSE, FALSE)>>
     ELSE <<>>)
    \o <<Ev("model.save_pretrained", 272, OutputDir, k, FALSE,
            cfg.save_safetensors),
         Ev("save_done", 272, OutputDir, k, FALSE, cfg.save_safetensors),
         Ev("sys.exit", 273, "", k, FALSE, FALSE)>>

\* C6: every invocation of the interruption handler makes its calls in the
\* order reverse (exactly when flash_optimum is set), save to output_dir with
\* the configured serialization, exit; each at most once; and the process
\* has exited through the handler only after an invocation completed its save
\* and then called exit with status 0.
C6_HandlerOrder ==
    /\ \A k \in 1..Len(sigints) : IsPrefix(EventsBy(k), HandlerScript(k))
    /\ pc = "exited"
       => /\ exc = "SystemExit(0)"
          /\ \E k \in 1..Len(sigints) : EventsBy(k) = HandlerScript(k)

\* a second SIGINT arrived while the first invocation was saving; the second
\* invocation ran to its exit
C6_Witness ==
    /\ pc = "exited"
    /\ cfg.flash_optimum /\ cfg.save_safetensors
    /\ Len(sigints) = 2
    /\ Len(EventsBy(1)) = 2
    /\ EventsBy(2) = HandlerScript(2)

\* C7 (as claimed): a process with local_rank other than 0 writes nothing
\* under the output directory, except through trainer.save_model under fsdp.
C7_OnlyRankZeroWrites ==
    cfg.local_rank # 0
    => \A i \in DOMAIN log :
          log[i].op \in WriteOps
          => (log[i].op = "trainer.save_model" /\ cfg.fsdp)

\* the save primitives the distributed save rule prescribes
StandardSave ==
    IF cfg.fsdp THEN <<"trainer.save_model">>
    ELSE IF cfg.local_rank = 0 THEN <<"model.save_pretrained">>
    ELSE <<>>

\* the save primitives train() called after trainer.train returned
FinalSaveCalls ==
    OpsOf(SelectSeq(AfterTrain, LAMBDA e : e.op \in SavePrimitives))

\* every write train() made after trainer.train returned is to output_dir
FinalWritesToOutputDir ==
    \A i \in DOMAIN AfterTrain :
        AfterTrain[i].op \in WriteOps => AfterTrain[i].dir = OutputDir

\* C8: on normal completion without relora, under fsdp the process calls
\* trainer.save_model(output_dir) and not model.save_pretrained; otherwise
\* local_rank 0 calls model.save_pretrained(output_dir) once and any other
\* rank returns without a write.
C8_DistributedSaveRule ==
    (pc = "done" /\ HasLine(294) /\ ~cfg.relora_steps)
    => /\ FinalSaveCalls = StandardSave
       /\ FinalWritesToOutputDir
       /\ ~HandlerSaved
       /\ (cfg.local_rank # 0 /\ ~cfg.fsdp) => AfterTrain = <<>>

C8_Witness ==
    /\ pc = "done" /\ HasLine(294) /\ ~cfg.relora_steps
    /\ cfg.local_rank # 0 /\ cfg.fsdp
    /\ FinalSaveCalls = <<"trainer.save_model">>

\* C9 (as claimed): with flash_optimum set, the model handed to the final
\* save primitive on normal completion (line 306 or 311) has been reversed.
C9_ReversedBeforeFinalSave ==
    cfg.flash_optimum
    => \A i \in DOMAIN log :
          (log[i].op \in SavePrimitives /\ log[i].line \in {306, 311})
          => ~log[i].bt

\* the merge and save calls train() made after trainer.train returned
FinalizerCalls ==
    OpsOf(SelectSeq(AfterTrain,
                    LAMBDA e : e.op \in SavePrimitives
                                        \cup {"merge_and_unload"}))

\* C10: on normal completion with relora_steps set, if the adapter is lora
\* and neither load_in_4bit nor load_in_8bit is set the finalizer calls
\* merge_and_unload and then makes the standard final save; otherwise it
\* returns having made no call at all.
C10_ReloraFinalizer ==
    (pc = "done" /\ HasLine(294) /\ cfg.relora_steps)
    => IF ReloraMerges
       THEN /\ FinalizerCalls = <<"merge_and_unload">> \o StandardSave
            /\ FinalWritesToOutputDir
            /\ ~HandlerSaved
       ELSE AfterTrain = <<>> /\ ~HandlerSaved

C10_Witness ==
    /\ pc = "done" /\ HasLine(294) /\ cfg.relora_steps
    /\ ReloraMerges /\ cfg.local_rank = 0 /\ ~cfg.fsdp
    /\ FinalizerCalls = <<"merge_and_unload", "model.save_pretrained">>

\* no explicit checkpoint was configured and auto-resume is enabled
AutoResumeRequested ==
    /\ cfg_at_entry.resume_from_checkpoint = NoCheckpoint
    /\ cfg_at_entry.auto_resume_from_checkpoints

C12_ExplicitCheckpointWins ==
    /\ (cfg_at_entry.resume_from_checkpoint # NoCheckpoint /\ HasLine(292))
       => resume_from_checkpoint = cfg_at_entry.resume_from_checkpoint
    /\ HasLine(238) => AutoResumeRequested
    /\ ~HasLine(238) => possible_checkpoints = {}

C12_Witness ==
    /\ cfg_at_entry.resume_from_checkpoint = ExplicitCheckpoint
    /\ cfg_at_entry.auto_resume_from_checkpoints
    /\ HasLine(292)
    /\ resume_from_checkpoint = ExplicitCheckpoint
    /\ ~HasLine(238)

\* C13 (as claimed): in merge mode every process merges and casts to
\* float16, local_rank 0 alone writes the model and the tokenizer, under
\* merged and nowhere else, and every process returns without training,
\* inference or reshard.  Stated for runs in which the loads succeed.
C13_MergeModeWritesOnlyMerged ==
    (Terminated /\ ExpectedMode = "merge" /\ ~LoadFailed)
    => /\ pc = "done"
       /\ Has("merge_and_unload") /\ Has("to_float16")
       /\ model.merged /\ model.fp16
       /\ \A i \in DOMAIN log :
              log[i].op \in WriteOps
              => cfg.local_rank = 0 /\ log[i].dir = MergedDir
       /\ cfg.local_rank = 0
          => \E i, j \in DOMAIN log :
                 /\ log[i].op = "model.save_pretrained"
                 /\ log[j].op = "tokenizer.save_pretrained"
       /\ ModesExecuted = {"merge"}

\* the position of the first load_model event of the log, 0 when none
FirstLoadModel ==
    IF Has("load_model")
    THEN CHOOSE i \in DOMAIN log :
             /\ log[i].op = "load_model"
             /\ \A j \in 1..(i - 1) : log[j].op # "load_model"
    ELSE 0

\* C14: when load_cfg, load_tokenizer or load_model raises, the run ends
\* there with nothing written; in every execution every write to the output
\* directory comes after load_model has returned.
C14_NoWriteBeforeModelLoad ==
    /\ \A i \in DOMAIN log :
           log[i].op \in WriteOps
           => FirstLoadModel # 0 /\ FirstLoadModel < i
    /\ LoadFailed
       => /\ pc = "raised"
          /\ \A i \in DOMAIN log : log[i].op \notin WriteOps
          /\ ~model.loaded

C14_Witness ==
    /\ exc = "LoadModelError"
    /\ Has("load_tokenizer") /\ Has("prepare_dataset")
    /\ pc = "raised"

\* C15: prepare_dataset is called only when the selected mode is prepare-only
\* or train; when the selected mode is reshard, merge or inference no dataset
\* is ever constructed.
C15_DatasetOnlyForTrainingModes ==
    /\ Has("prepare_dataset") => ExpectedMode \in {"prepare_only", "train"}
    /\ ExpectedMode \in {"reshard", "merge", "inference"}
       => ~train_dataset /\ ~Has("prepare_dataset")

C15_Witness ==
    /\ pc = "done"
    /\ ExpectedMode = "reshard" /\ Executed("reshard")
    /\ ~train_dataset

\* C18: local_rank 0 is never inside trainer.train without the SIGINT handler
\* installed, the installation precedes the trainer.train call, and no other
\* rank ever has the handler.
C18_HandlerInstalledBeforeTraining ==
    /\ (cfg.local_rank = 0 /\ HasLine(292))
       => /\ handler
          /\ \E i, j \in DOMAIN log :
                 i < j /\ log[i].line = 275 /\ log[j].line = 292
    /\ cfg.local_rank # 0 => ~handler /\ ~HasLine(275)

C18_Witness ==
    pc = "training" /\ cfg.local_rank = 0 /\ handler /\ hstack = <<>>

C20_DatasetProducedBeforeRead ==
    /\ ((pc = "debug" /\ DebugSet) \/ pc = "setup_trainer")
       => train_dataset /\ Has("prepare_dataset")
    /\ exc # "UnboundLocalError"

\* the key and the value of the override the loop handles next
NextKey == kwargs[kw_done + 1].k
NextValue == kwargs[kw_done + 1].v

\* the step is an iteration of the loop, and it assigns to cfg / it does not
Applies == kw_done' = kw_done + 1 /\ Len(log') = Len(log) + 1
Skips == kw_done' = kw_done + 1 /\ log' = log

\* C16 (as claimed): an override is applied only when its key exists in the
\* loaded source or strict is present in the configuration and false.
C16_AppliedOnlyIfKnownOrExplicitlyNonStrict ==
    [][Applies => \/ NextKey \in DOMAIN cfg_at_entry
                  \/ /\ "strict" \in DOMAIN cfg
                     /\ cfg["strict"] = PyBool(FALSE)]_vars

\* C16 (amended): an override is applied exactly when its key exists in the
\* loaded source or cfg.strict is not truthy when the key is handled (absent,
\* null, false, or made so by an earlier override); otherwise cfg is left
\* unchanged.  An applied override replaces the value of its key and no
\* other; when the existing value is a bool the stored value is
\* bool(override), else the override itself.
C16_AppliedIffKnownOrStrictFalsy ==
    [][kw_done' = kw_done + 1
       => /\ Applies <=> \/ NextKey \in DOMAIN cfg_at_entry
                         \/ "strict" \notin DOMAIN cfg
                         \/ cfg["strict"] \in {PyNone, PyBool(FALSE),
                                               PyStr(""), PyInt(0)}
          /\ Skips <=> ~Applies
          /\ Skips => cfg' = cfg
          /\ Applies
             => /\ DOMAIN cfg' = DOMAIN cfg \cup {NextKey}
                /\ \A x \in DOMAIN cfg \ {NextKey} : cfg'[x] = cfg[x]
                /\ IF NextKey \in DOMAIN cfg /\ cfg[NextKey].t = "bool"
                   THEN /\ cfg'[NextKey].t = "bool"
                        /\ cfg'[NextKey].b = Truthy(NextValue)
                   ELSE cfg'[NextKey] = NextValue]_vars

\* a key that the source does not hold was stored although strict is absent,
\* and a str override of a bool key was stored as a bool
C16_Witness ==
    /\ pc = "load_model_config"
    /\ "strict" \notin DOMAIN cfg_at_entry
    /\ "seed" \in DOMAIN cfg /\ "seed" \notin DOMAIN cfg_at_entry
    /\ "debug" \in DOMAIN cfg_at_entry
    /\ cfg_at_entry["debug"] = PyBool(FALSE)
    /\ \E i \in DOMAIN kwargs :
           kwargs[i].k = "debug" /\ kwargs[i].v = PyStr("false")
    /\ cfg["debug"] = PyBool(TRUE)

\* how the operator writes the positions 1..5 of the list
PositionDigits == <<"1", "2", "3", "4", "5">>

\* the entry t is the number i, blanks around it aside
Names(t, i) == Strip(t) = <<PositionDigits[i]>>

\* the position an entry names
Position(t) == CHOOSE i \in DOMAIN PositionDigits : Names(t, i)

\* the entry is an integer in 1..Len(yaml_files)
ValidEntry(t) == \E i \in 1..Len(yaml_files) : Names(t, i)

\* the number of times input() was called
Prompts == Len(SelectSeq(log, LAMBDA e : e.op = "input"))

\* C17: with no .yml file choose_config raises without prompting; with one
\* it returns that file without prompting; with n >= 2 it prompts until the
\* entry is an integer in 1..n and returns the file at that position, and an
\* entry that is not such an integer neither selects a file nor ends the
\* loop.
C17_ChooseConfig ==
    LET n == Len(yaml_files)
        last == entries[Len(entries)]
    IN  pc # "choose_config"
        => /\ n = 0 => /\ pc = "raised" /\ exc = "ValueError"
                       /\ Prompts = 0 /\ entries = <<>>
                       /\ chosen_file = "None"
           /\ n = 1 => /\ pc = "returned" /\ chosen_file = yaml_files[1]
                       /\ Prompts = 0 /\ entries = <<>>
           /\ n >= 2
              => /\ exc = "None"
                 /\ Prompts = Len(entries)
                 /\ \A i \in 1..(Len(entries) - 1) : ~ValidEntry(entries[i])
                 /\ IF entries # <<>> /\ ValidEntry(last)
                    THEN /\ pc = "returned"
                         /\ chosen_file = yaml_files[Position(last)]
                    ELSE /\ pc = "prompt"
                         /\ chosen_file = "None"

\* two rejected entries (one not a number, one out of range), then a valid
\* one
C17_Witness ==
    /\ Len(yaml_files) = 3
    /\ entries = <<<<"a">>, <<"4">>, <<"2">>>>
    /\ pc = "returned"
    /\ chosen_file = "b.yml"

====
